---- MODULE Spec2Model ----
(***************************************************************************)
(* Model of src/Controller/bookingController.js: the booking request      *)
(* handlers (bookCar, updateBooking, extendBooking, cancelBooking) over    *)
(* the Booking and Car collections.                                        *)
(*                                                                         *)
(* Encoding of the JavaScript values the handlers compute with:            *)
(*   - a date string "YYYY-MM-DD" is its day number (string order on ISO   *)
(*     dates is the order of the day numbers);                             *)
(*   - a time string is a record [h, period]: period "" is the 24-hour     *)
(*     "HH:00" form of a request, period "AM"/"PM" the "h:00 AM" form      *)
(*     that formatTimeTo12Hour produces;                                   *)
(*   - a Date object is a record [valid, t]: t is hours since day 0,       *)
(*     00:00 UTC; valid = FALSE is Invalid Date (NaN);                     *)
(*   - an optional request field is <<>> (absent) or <<v>>.                *)
(***************************************************************************)
EXTENDS Integers, Sequences, FiniteSets, TLC

VARIABLES
    bookings,   \* the Booking collection: a set of documents
    cars,       \* the Car collection: carId -> document
    nextId,     \* the next fresh Booking _id
    now,        \* wall clock, hours since day 0 00:00 UTC
    res,        \* the response of the request handled last (NoRes: none pending)
    reqs,       \* SpecConc: per connection, the request in flight and where it is
    calc        \* SpecPrice: bookCar's pricing applied to drawn inputs

vars == <<bookings, cars, nextId, now, res, reqs, calc>>

(***************************************************************************)
(* Bounds of the model.                                                    *)
(***************************************************************************)
MaxBookings == 2     \* Booking _ids are 1..MaxBookings
MaxNow == 1          \* the clock reads day 0..MaxNow, 00:00 UTC

Days == {1, 2}       \* request dates
Hours == {3, 10}     \* request times 03:00 and 10:00
Cars == {"c1", "c2"}
GhostCar == "c0"     \* a carId that resolves to no Car document
\* The handlers use a user id only to compare it with a booking's: u1 books,
\* and u1 (the owner) and u2 (another user) cancel.
Bookers == {"u1"}
Users == {"u1", "u2"}
BookingIds == 1..MaxBookings

HoursPerDay == 24
KarachiOffset == 5   \* "+05:00" and timeZone "Asia/Karachi"
\* The zone of the server process, which new Date("YYYY-MM-DDTHH:MM") reads
\* its argument in: the deployment the code is written for (line 295).
ServerOffset == KarachiOffset

RentRate(c) == IF c = "c1" THEN 100 ELSE 150

\* car.userId: the user who owns the car
Owner(c) == IF c = "c1" THEN "o1" ELSE "o2"

Opt(S) == {<<>>} \cup {<<x>> : x \in S}

(***************************************************************************)
(* Dates and times.                                                        *)
(***************************************************************************)
InvalidDate == [valid |-> FALSE, t |-> 0]
DateAt(t) == [valid |-> TRUE, t |-> t]

HHMM(h) == [h |-> h, period |-> ""]
IsHHMM(time) == time.period = ""

\* new Date(`${date}T${time}:00+05:00`)
ParseWithOffset(date, time) ==
    IF IsHHMM(time)
    THEN DateAt(date * HoursPerDay + time.h - KarachiOffset)
    ELSE InvalidDate

\* new Date(`${date}T${time}`): the ISO form with no offset is read in the
\* server's zone; "h:mm AM" after the T is no date-time form: Invalid Date.
ParseLocal(date, time) ==
    IF IsHHMM(time)
    THEN DateAt(date * HoursPerDay + time.h - ServerOffset)
    ELSE InvalidDate

\* new Date(d.toLocaleString("en-US", { timeZone: "Asia/Karachi" }))
ToKarachiLocal(d) ==
    IF d.valid THEN DateAt(d.t + KarachiOffset - ServerOffset) ELSE InvalidDate

\* JavaScript's relational operators on Dates: false when either is NaN.
DateLt(a, b) == a.valid /\ b.valid /\ a.t < b.t
DateLe(a, b) == a.valid /\ b.valid /\ a.t <= b.t
DateGe(a, b) == a.valid /\ b.valid /\ a.t >= b.t

\* d.toISOString().split("T")[0]: the UTC calendar date
ISODate(d) == d.t \div HoursPerDay

formatTimeTo12Hour(time) ==
    [h |-> IF time.h % 12 = 0 THEN 12 ELSE time.h % 12,
     period |-> IF time.h >= 12 THEN "PM" ELSE "AM"]

Max0(n) == IF n < 0 THEN 0 ELSE n

\* Math.max(0, Math.ceil((end - start) / (1000*60*60*24) + 1)); NaN if
\* either Date is invalid (Math.max(0, NaN) is NaN).
daysRented(start, end) ==
    IF start.valid /\ end.valid
    THEN [valid |-> TRUE, n |-> Max0(1 - ((start.t - end.t) \div HoursPerDay))]
    ELSE [valid |-> FALSE, n |-> 0]

\* daysRented * rentRate
totalPriceOf(days, rate) == [valid |-> days.valid, n |-> days.n * rate]

(***************************************************************************)
(* The collections and their queries.                                      *)
(***************************************************************************)
NoRes == [op |-> "none"]

OverlapMsg == "The car is already booked for the selected dates."
UnavailableMsg == "Car is not available for booking."

\* Car.findById(carId): a set with the document, or empty (null)
Car_findById(carId) == IF carId \in DOMAIN cars THEN {cars[carId]} ELSE {}

\* Booking.findById(bookingId)
Booking_findById(bookingId) == {b \in bookings : b.id = bookingId}

\* The filter of bookCar's Booking.findOne: the three $or clauses over the
\* stored date strings and the request's date strings.
bookCarOverlapNoneFound(b, carId, rentalStartDate, rentalEndDate) == FALSE

bookCarOverlap(b, carId, rentalStartDate, rentalEndDate) ==
    /\ b.carId = carId
    /\ \/ (b.rentalStartDate <= rentalEndDate /\ b.rentalEndDate >= rentalStartDate)
       \/ (b.rentalStartDate >= rentalStartDate /\ b.rentalStartDate <= rentalEndDate)
       \/ (b.rentalEndDate >= rentalStartDate /\ b.rentalEndDate <= rentalEndDate)

(***************************************************************************)
(* bookCar.  A request is [carId, userId, rentalStartDate, rentalStartTime,*)
(* rentalEndDate, rentalEndTime]; carId is optional (a missing required    *)
(* field).  fault names the awaited call that throws, "none" if none does. *)
(* The result is the collections after the handler and its response.  The  *)
(* response keeps, of the request, what identifies it: the whole request   *)
(* of bookCar and cancelBooking, the bookingId of updateBooking, the       *)
(* bookingId and rentalEndDate of extendBooking.                           *)
(***************************************************************************)
Reply(op, req, fault, status, msg, id) ==
    [op |-> op, req |-> req, fault |-> fault, status |-> status, msg |-> msg,
     id |-> id]

BookRequestsFor(carIds) ==
    [carId : carIds, userId : Bookers,
     rentalStartDate : Days, rentalStartTime : {HHMM(h) : h \in Hours},
     rentalEndDate : Days, rentalEndTime : {HHMM(h) : h \in Hours}]

\* Every interval on every car; one request with no carId and one for a car
\* that does not exist.
BookRequests ==
    BookRequestsFor({<<c>> : c \in Cars})
        \cup {r \in BookRequestsFor({<<>>, <<GhostCar>>}) :
                /\ r.rentalStartDate = 1 /\ r.rentalEndDate = 1
                /\ r.rentalStartTime = HHMM(10) /\ r.rentalEndTime = HHMM(10)}

\* rentalDuration, daysRented and totalPrice of bookCar
bookCarPricing(req, rentRate) ==
    LET rentalStartDateis == ParseWithOffset(req.rentalStartDate, req.rentalStartTime)
        rentalEndDateis == ParseWithOffset(req.rentalEndDate, req.rentalEndTime)
        days == daysRented(rentalStartDateis, rentalEndDateis)
    IN [daysRented |-> days.n, totalPrice |-> totalPriceOf(days, rentRate).n]

BookFaults == {"Car.findById", "Booking.save", "createInvoice", "car.save"}

\* car.availability !== "Available"
UnavailableInverted(car) == car.availability = "Available"

UnavailableNever(car) == FALSE

Unavailable(car) == car.availability # "Available"

\* The catch block of bookCar (lines 146-159) after the awaited call fault
\* threw: it answers and writes nothing, so the collections stay as the
\* try block left them.  id is the _id of the booking inserted, 0 if none.
bookCarCaughtRolledBack(bs, cs, nid, req, fault, id) ==
    [bookings |-> {b \in bs : b.id # id}, cars |-> cs, nextId |-> nid,
     res |-> Reply("bookCar", req, fault, 500,
                   "Server error. Please try again later.", id)]

bookCarCaught(bs, cs, nid, req, fault, id) ==
    [bookings |-> bs, cars |-> cs, nextId |-> nid,
     res |-> Reply("bookCar", req, fault, 500,
                   "Server error. Please try again later.", id)]

bookCarRun(req, fault) ==
    LET reply(thrown, status, msg) ==
            [bookings |-> bookings, cars |-> cars, nextId |-> nextId,
             res |-> Reply("bookCar", req, thrown, status, msg, 0)]
        same(status, msg) == reply("none", status, msg)
    IN
    IF req.carId = <<>> THEN same(400, "All fields are required.")
    ELSE IF fault = "Car.findById"
    THEN bookCarCaught(bookings, cars, nextId, req, fault, 0)
    ELSE
    LET carId == req.carId[1]
        found == Car_findById(carId)
    IN
    IF found = {} THEN same(404, "Car not found.")
    ELSE
    LET car == CHOOSE c \in found : TRUE
        rentalStartDateis == ParseWithOffset(req.rentalStartDate, req.rentalStartTime)
        rentalEndDateis == ParseWithOffset(req.rentalEndDate, req.rentalEndTime)
    IN
    IF Unavailable(car) THEN same(400, UnavailableMsg)
    ELSE IF \E b \in bookings :
                bookCarOverlap(b, carId, req.rentalStartDate, req.rentalEndDate)
    THEN same(400, OverlapMsg)
    ELSE IF DateLt(rentalStartDateis, DateAt(now))
    THEN same(400, "Rental start date must be in the present or future.")
    ELSE IF DateLt(rentalEndDateis, rentalStartDateis)
    THEN same(400, "End date must be after the start date.")
    ELSE IF fault = "Booking.save"
    THEN bookCarCaught(bookings, cars, nextId, req, fault, 0)
    ELSE
    LET totalPrice == bookCarPricing(req, car.rentRate).totalPrice
        newBooking ==
            [id |-> nextId, carId |-> carId, userId |-> req.userId,
             rentalStartDate |-> ISODate(rentalStartDateis),
             rentalStartTime |-> formatTimeTo12Hour(req.rentalStartTime),
             rentalEndDate |-> ISODate(rentalEndDateis),
             rentalEndTime |-> formatTimeTo12Hour(req.rentalEndTime),
             totalPrice |-> totalPrice]
        saved == bookings \cup {newBooking}
    IN
    IF fault \in {"createInvoice", "car.save"}
    THEN bookCarCaught(saved, cars, nextId + 1, req, fault, nextId)
    ELSE [bookings |-> saved,
          cars |-> [cars EXCEPT ![carId].availability = "Rented Out"],
          nextId |-> nextId + 1,
          res |-> Reply("bookCar", req, fault, 201, "Car booked successfully",
                        nextId)]

bookCar(req, fault) ==
    /\ res = NoRes
    /\ nextId <= MaxBookings
    /\ \E r \in {bookCarRun(req, fault)} :
        /\ bookings' = r.bookings
        /\ cars' = r.cars
        /\ nextId' = r.nextId
        /\ res' = r.res
    /\ UNCHANGED <<now, reqs, calc>>

(***************************************************************************)
(* cancelBooking.  A request is [bookingId, userId].                       *)
(***************************************************************************)
CancelRequests == [bookingId : BookingIds, userId : Users]

CancelFaults == {"car.save", "Booking.findByIdAndDelete"}

\* Booking.findOne({ _id: bookingId, userId })
cancelFindAnyUser(bookingId, userId) == {b \in bookings : b.id = bookingId}

cancelFind(bookingId, userId) ==
    {b \in bookings : b.id = bookingId /\ b.userId = userId}

\* car.availability = "Available"; await car.save()
releaseCarForgotten(cs, carId) == cs

releaseCar(cs, carId) == [cs EXCEPT ![carId].availability = "Available"]

cancelBookingRun(req, fault) ==
    LET reply(bs, cs, thrown, status, msg) ==
            [bookings |-> bs, cars |-> cs,
             res |-> Reply("cancelBooking", req, thrown, status, msg, req.bookingId)]
        found == cancelFind(req.bookingId, req.userId)
    IN
    IF found = {}
    THEN reply(bookings, cars, "none", 404,
               "Booking not found or unauthorized access.")
    ELSE
    LET booking == CHOOSE b \in found : TRUE
        car == Car_findById(booking.carId)
        released == IF car = {} THEN cars ELSE releaseCar(cars, booking.carId)
    IN
    IF car # {} /\ fault = "car.save"
    THEN reply(bookings, cars, fault, 500, "Server error. Please try again later.")
    ELSE IF fault = "Booking.findByIdAndDelete"
    THEN reply(bookings, released, fault, 500,
               "Server error. Please try again later.")
    ELSE reply({b \in bookings : b.id # req.bookingId}, released, "none", 200,
               "Booking canceled successfully.")

cancelBooking(req, fault) ==
    /\ res = NoRes
    /\ \E r \in {cancelBookingRun(req, fault)} :
        /\ bookings' = r.bookings
        /\ cars' = r.cars
        /\ res' = r.res
    /\ UNCHANGED <<nextId, now, reqs, calc>>

(***************************************************************************)
(* updateBooking.  A request is [bookingId, rentalStartDate,               *)
(* rentalStartTime, rentalEndDate, rentalEndTime], the last four optional. *)
(***************************************************************************)
UpdateRequests ==
    [bookingId : BookingIds,
     rentalStartDate : Opt(Days), rentalStartTime : Opt({HHMM(h) : h \in Hours}),
     rentalEndDate : Opt(Days), rentalEndTime : Opt({HHMM(h) : h \in Hours})]

UpdateFaults == {"booking.save"}

\* if (field) booking.field = field
Assign(old, opt) == IF opt = <<>> THEN old ELSE opt[1]

\* The Booking collection while a handler holds the document `assigned`,
\* with fields assigned in memory and booking.save() not called: the
\* collection keeps the document as it was read.
UnsavedWrittenThrough(bs, assigned) ==
    {b \in bs : b.id # assigned.id} \cup {assigned}

Unsaved(bs, assigned) == bs

\* The filter below written on the stored fields rentalStartDate and
\* rentalEndDate.
updateOverlapOnStoredDates(b, carId, bookingId, updatedStart, updatedEnd) ==
    /\ b.carId = carId
    /\ b.id # bookingId
    /\ DateLe(DateAt(b.rentalStartDate * HoursPerDay), updatedEnd)
    /\ DateGe(DateAt(b.rentalEndDate * HoursPerDay), updatedStart)

\* The filter of updateBooking's Booking.findOne: it compares the fields
\* rentalStart and rentalEnd, which the filter reads from each document.
updateOverlap(b, carId, bookingId, updatedStart, updatedEnd) ==
    /\ b.carId = carId
    /\ b.id # bookingId
    /\ "rentalStart" \in DOMAIN b
    /\ "rentalEnd" \in DOMAIN b
    /\ DateLe(b.rentalStart, updatedEnd)
    /\ DateGe(b.rentalEnd, updatedStart)

\* localCurrentTime >= localRentalStartDateTime
AlreadyStarted(current, start) == DateGe(current, start)

updateBookingRun(req, fault) ==
    LET reply(bs, thrown, status, msg) ==
            [bookings |-> bs,
             res |-> Reply("updateBooking", [bookingId |-> req.bookingId], thrown,
                           status, msg, req.bookingId)]
        same(status, msg) == reply(bookings, "none", status, msg)
        found == Booking_findById(req.bookingId)
    IN
    IF found = {} THEN same(404, "Booking not found")
    ELSE
    LET booking == CHOOSE b \in found : TRUE
        localCurrentTime == ToKarachiLocal(DateAt(now))
        localRentalStartDateTime ==
            ToKarachiLocal(ParseLocal(booking.rentalStartDate, booking.rentalStartTime))
    IN
    IF AlreadyStarted(localCurrentTime, localRentalStartDateTime)
    THEN same(400, "You can only update the booking before the rental start time.")
    ELSE
    LET previousRentalStartDateTime == localRentalStartDateTime
        assigned ==
            [booking EXCEPT
                !.rentalStartDate = Assign(@, req.rentalStartDate),
                !.rentalEndDate = Assign(@, req.rentalEndDate),
                !.rentalStartTime = Assign(@, req.rentalStartTime),
                !.rentalEndTime = Assign(@, req.rentalEndTime)]
        updatedLocalRentalStartDateTime ==
            ToKarachiLocal(ParseLocal(assigned.rentalStartDate, assigned.rentalStartTime))
        updatedLocalRentalEndDateTime ==
            ToKarachiLocal(ParseLocal(assigned.rentalEndDate, assigned.rentalEndTime))
        car == Car_findById(booking.carId)
        unsaved(status, msg) == reply(Unsaved(bookings, assigned), "none", status, msg)
    IN
    IF DateLe(updatedLocalRentalEndDateTime, updatedLocalRentalStartDateTime)
    THEN unsaved(400, "Rental end time must be after the rental start time.")
    ELSE IF DateLe(updatedLocalRentalStartDateTime, previousRentalStartDateTime)
    THEN unsaved(400, "New rental start time must be after the previous rental start time.")
    ELSE IF \E b \in bookings :
                updateOverlap(b, booking.carId, req.bookingId,
                              updatedLocalRentalStartDateTime,
                              updatedLocalRentalEndDateTime)
    THEN unsaved(400, OverlapMsg)
    ELSE IF car = {} THEN unsaved(404, "Car not found")
    ELSE
    LET totalPrice ==
            totalPriceOf(daysRented(updatedLocalRentalStartDateTime,
                                    updatedLocalRentalEndDateTime),
                         (CHOOSE c \in car : TRUE).rentRate)
    IN
    \* booking.save() rejects a NaN totalPrice (the Number cast fails)
    IF ~totalPrice.valid THEN reply(bookings, "CastError", 500, "Error updating booking")
    ELSE IF fault = "booking.save"
    THEN reply(bookings, fault, 500, "Error updating booking")
    ELSE reply((bookings \ {booking})
                   \cup {[assigned EXCEPT !.totalPrice = totalPrice.n]},
               "none", 200, "Booking updated successfully")

updateBooking(req, fault) ==
    /\ res = NoRes
    /\ \E r \in {updateBookingRun(req, fault)} :
        /\ bookings' = r.bookings
        /\ res' = r.res
    /\ UNCHANGED <<cars, nextId, now, reqs, calc>>

(***************************************************************************)
(* extendBooking.  A request is [bookingId, rentalEndDate, rentalEndTime], *)
(* the last two optional.                                                  *)
(***************************************************************************)
BadTime == [h |-> 3, period |-> "PM"]    \* "3:00 PM": not /^\d{2}:\d{2}$/

ExtendRequests ==
    [bookingId : BookingIds, rentalEndDate : Opt(Days),
     rentalEndTime : Opt({HHMM(h) : h \in Hours} \cup {BadTime})]

ExtendFaults == {"booking.save", "createInvoice"}

\* new Date("YYYY-MM-DD"): midnight UTC of that day
ParseDateOnly(date) == DateAt(date * HoursPerDay)

\* The filter of extendBooking's Booking.findOne.
extendOverlapNoneFound(b, carId, bookingId, rentalStartDate, rentalEndDate) == FALSE

extendOverlap(b, carId, bookingId, rentalStartDate, rentalEndDate) ==
    /\ b.carId = carId
    /\ b.id # bookingId
    /\ b.rentalStartDate <= rentalEndDate
    /\ b.rentalEndDate >= rentalStartDate

extendBookingRun(req, fault) ==
    LET reply(bs, thrown, status, msg) ==
            [bookings |-> bs,
             res |-> Reply("extendBooking",
                           [bookingId |-> req.bookingId,
                            rentalEndDate |-> req.rentalEndDate],
                           thrown, status, msg, req.bookingId)]
        same(status, msg) == reply(bookings, "none", status, msg)
        found == Booking_findById(req.bookingId)
    IN
    IF found = {} THEN same(404, "Booking not found")
    ELSE
    LET booking == CHOOSE b \in found : TRUE
        currentTime == DateAt(now)
        rentalStartDateTime ==
            ParseLocal(booking.rentalStartDate, booking.rentalStartTime)
    IN
    IF DateLe(rentalStartDateTime, currentTime)
    THEN same(400, "You can only extend the booking before the rental start time.")
    ELSE IF req.rentalEndDate # <<>> /\ ~ParseDateOnly(req.rentalEndDate[1]).valid
    THEN same(400, "Invalid rental end date format.")
    ELSE IF req.rentalEndTime # <<>> /\ ~IsHHMM(req.rentalEndTime[1])
    THEN reply(Unsaved(bookings,
                       [booking EXCEPT
                           !.rentalEndDate = Assign(@, req.rentalEndDate)]),
               "none", 400, "Invalid rental end time format.")
    ELSE
    LET assigned ==
            [booking EXCEPT
                !.rentalEndDate = Assign(@, req.rentalEndDate),
                !.rentalEndTime = Assign(@, req.rentalEndTime)]
        updatedRentalEndDateTime ==
            ParseLocal(assigned.rentalEndDate, assigned.rentalEndTime)
        car == Car_findById(booking.carId)
        unsaved(status, msg) == reply(Unsaved(bookings, assigned), "none", status, msg)
    IN
    IF DateLe(updatedRentalEndDateTime, rentalStartDateTime)
    THEN unsaved(400, "Rental end time must be after the rental start time.")
    ELSE IF \E b \in bookings :
                extendOverlap(b, booking.carId, req.bookingId,
                              assigned.rentalStartDate, assigned.rentalEndDate)
    THEN unsaved(400, OverlapMsg)
    ELSE IF car = {}
    \* booking.carId is null: reading rentRate of it throws
    THEN reply(bookings, "TypeError", 500, "Error extending booking")
    ELSE
    LET totalPrice ==
            totalPriceOf(daysRented(rentalStartDateTime, updatedRentalEndDateTime),
                         (CHOOSE c \in car : TRUE).rentRate)
        saved == (bookings \ {booking})
                     \cup {[assigned EXCEPT !.totalPrice = totalPrice.n]}
    IN
    IF ~totalPrice.valid \/ totalPrice.n <= 0
    THEN unsaved(400, "Failed to calculate total price.")
    ELSE IF fault = "booking.save"
    THEN reply(bookings, fault, 500, "Error extending booking")
    ELSE IF fault = "createInvoice"
    THEN reply(saved, fault, 500, "Error extending booking")
    ELSE reply(saved, "none", 200, "Booking extended successfully")

extendBooking(req, fault) ==
    /\ res = NoRes
    /\ \E r \in {extendBookingRun(req, fault)} :
        /\ bookings' = r.bookings
        /\ res' = r.res
    /\ UNCHANGED <<cars, nextId, now, reqs, calc>>

(***************************************************************************)
(* Return_car.  A request is [BookingId].  Its response record also keeps  *)
(* emitted, the notifications the handler sent through io.emit, in order.  *)
(***************************************************************************)
ReturnRequests == [BookingId : BookingIds]

ReturnFaults == {"Booking.findById", "Car.findById", "io.emit"}

\* io.emit(`notification${car.userId}`, { message: ... })
NotifyTwice(car) ==
    <<[channel |-> car.userId, message |-> "Car return request recieved"],
      [channel |-> car.userId, message |-> "Car return request recieved"]>>

Notify(car) ==
    <<[channel |-> car.userId, message |-> "Car return request recieved"]>>

returnCarRun(req, fault) ==
    LET reply(thrown, status, msg, emitted) ==
            [res |-> Reply("Return_car", req, thrown, status, msg, req.BookingId)
                         @@ [emitted |-> emitted]]
    IN
    IF fault = "Booking.findById"
    THEN reply(fault, 500, "Something went wrong", <<>>)
    ELSE
    LET found == Booking_findById(req.BookingId) IN
    IF found = {} THEN reply("none", 404, "Booking not found", <<>>)
    ELSE
    LET booking == CHOOSE b \in found : TRUE
        populated == Car_findById(booking.carId)
    IN
    \* populate left booking.carId null: reading _id of it throws
    IF populated = {} THEN reply("TypeError", 500, "Something went wrong", <<>>)
    ELSE IF fault = "Car.findById"
    THEN reply(fault, 500, "Something went wrong", <<>>)
    ELSE
    LET car == CHOOSE c \in populated : TRUE IN
    IF fault = "io.emit" THEN reply(fault, 500, "Something went wrong", <<>>)
    ELSE reply("none", 200, "Return request sent to showroom  owner for approved",
               Notify(car))

Return_car(req, fault) ==
    /\ res = NoRes
    /\ \E r \in {returnCarRun(req, fault)} : res' = r.res
    /\ UNCHANGED <<bookings, cars, nextId, now, reqs, calc>>

(***************************************************************************)
(* The clock, and the hand-over from one request to the next.              *)
(***************************************************************************)
Tick ==
    /\ res = NoRes
    /\ now < MaxNow * HoursPerDay
    /\ now' = now + HoursPerDay
    /\ UNCHANGED <<bookings, cars, nextId, res, reqs, calc>>

\* Each request gets its own res object: the response is sent and the
\* server takes the next request.
NextRequest ==
    /\ res # NoRes
    /\ res' = NoRes
    /\ UNCHANGED <<bookings, cars, nextId, now, reqs, calc>>

NoCalc == [op |-> "none"]

Slots == {1, 2}      \* the connections of SpecConc
Idle == [pc |-> "idle"]

Init ==
    /\ bookings = {}
    /\ cars = [c \in Cars |-> [availability |-> "Available", rentRate |-> RentRate(c),
                                userId |-> Owner(c)]]
    /\ nextId = 1
    /\ now = 0
    /\ res = NoRes
    /\ reqs = [s \in Slots |-> Idle]
    /\ calc = NoCalc

(***************************************************************************)
(* Spec: requests handled one at a time, no awaited call throws.           *)
(***************************************************************************)
Next ==
    \/ \E req \in BookRequests : bookCar(req, "none")
    \/ \E req \in UpdateRequests : updateBooking(req, "none")
    \/ \E req \in ExtendRequests : extendBooking(req, "none")
    \/ \E req \in CancelRequests : cancelBooking(req, "none")
    \/ Tick
    \/ NextRequest

Spec == Init /\ [][Next]_vars

(***************************************************************************)
(* SpecFail: requests handled one at a time; in bookCar an awaited call    *)
(* may throw (the handlers take a fault everywhere; this specification     *)
(* draws bookCar's).                                                       *)
(***************************************************************************)
NextFail ==
    \/ \E req \in BookRequests, f \in BookFaults \cup {"none"} : bookCar(req, f)
    \/ \E req \in UpdateRequests : updateBooking(req, "none")
    \/ \E req \in ExtendRequests : extendBooking(req, "none")
    \/ \E req \in CancelRequests : cancelBooking(req, "none")
    \/ Tick
    \/ NextRequest

SpecFail == Init /\ [][NextFail]_vars

(***************************************************************************)
(* SpecReturn: Spec with Return_car requests, in which an awaited call or  *)
(* io.emit may throw.                                                      *)
(***************************************************************************)
NextReturn ==
    \/ Next
    \/ \E req \in ReturnRequests, f \in ReturnFaults \cup {"none"} : Return_car(req, f)

SpecReturn == Init /\ [][NextReturn]_vars

(***************************************************************************)
(* SpecPrice: bookCar's pricing (lines 64-91) applied to every request     *)
(* interval that passes its end-before-start check.                        *)
(***************************************************************************)
MaxPriceDay == 3     \* pricing inputs are days 1..MaxPriceDay

PriceHours == {0, 3, 10, 18}

PriceRequests ==
    [rentalStartDate : 1..MaxPriceDay, rentalStartTime : {HHMM(h) : h \in PriceHours},
     rentalEndDate : 1..MaxPriceDay, rentalEndTime : {HHMM(h) : h \in PriceHours}]

computePrice(req, rentRate) ==
    /\ ~DateLt(ParseWithOffset(req.rentalEndDate, req.rentalEndTime),
               ParseWithOffset(req.rentalStartDate, req.rentalStartTime))
    /\ \E p \in {bookCarPricing(req, rentRate)} :
         calc' = [op |-> "bookCar", req |-> req, rentRate |-> rentRate,
                  daysRented |-> p.daysRented, totalPrice |-> p.totalPrice]
    /\ UNCHANGED <<bookings, cars, nextId, now, res, reqs>>

NextPrice ==
    \E req \in PriceRequests, c \in Cars : computePrice(req, RentRate(c))

SpecPrice == Init /\ [][NextPrice]_vars

(***************************************************************************)
(* SpecConc: bookCar and cancelBooking requests in flight at once, on the  *)
(* connections Slots.  A handler runs from one await to the next in one    *)
(* step; the awaited database call takes effect at the start of the step   *)
(* that continues from it.  No awaited call throws, the clock stands.      *)
(* A bookCar starts only while an _id is left for its booking.             *)
(***************************************************************************)
ConcBookRequests ==
    {r \in BookRequests :
        r.rentalStartTime = HHMM(10) /\ r.rentalEndTime = HHMM(10)}

Done(op, req, status, msg) ==
    [pc |-> "done", op |-> op, req |-> req, status |-> status, msg |-> msg]

InFlight(s) == reqs[s].pc \notin {"idle", "done"}

\* Lines 6-30: the required fields, then await Car.findById(carId).
bookCar_findCar(s, req) ==
    /\ reqs[s] = Idle
    /\ nextId + Cardinality({t \in Slots : InFlight(t) /\ reqs[t].op = "bookCar"})
           <= MaxBookings
    /\ reqs' = [reqs EXCEPT ![s] =
                   IF req.carId = <<>>
                   THEN Done("bookCar", req, 400, "All fields are required.")
                   ELSE [pc |-> "bookCar:findOne", op |-> "bookCar", req |-> req,
                         car |-> Car_findById(req.carId[1])]]
    /\ UNCHANGED <<bookings, cars, nextId, now, res, calc>>

\* Lines 31-56: the car found and its availability as read, then
\* await Booking.findOne(overlap).
bookCar_findOverlap(s) ==
    /\ reqs[s].pc = "bookCar:findOne"
    /\ LET r == reqs[s] IN
       reqs' = [reqs EXCEPT ![s] =
                   IF r.car = {} THEN Done("bookCar", r.req, 404, "Car not found.")
                   ELSE IF Unavailable(CHOOSE c \in r.car : TRUE)
                   THEN Done("bookCar", r.req, 400, UnavailableMsg)
                   ELSE [r EXCEPT !.pc = "bookCar:save"]
                            @@ [overlapping |->
                                  {b \in bookings :
                                     bookCarOverlap(b, r.req.carId[1],
                                                    r.req.rentalStartDate,
                                                    r.req.rentalEndDate)}]]
    /\ UNCHANGED <<bookings, cars, nextId, now, res, calc>>

\* The step below with the overlap query run again at the save.
bookCar_saveRechecked(s) ==
    /\ reqs[s].pc = "bookCar:save"
    /\ LET r == reqs[s]
           req == r.req
           rentalStartDateis == ParseWithOffset(req.rentalStartDate, req.rentalStartTime)
           rentalEndDateis == ParseWithOffset(req.rentalEndDate, req.rentalEndTime)
           reject(msg) ==
               /\ reqs' = [reqs EXCEPT ![s] = Done("bookCar", req, 400, msg)]
               /\ UNCHANGED <<bookings, nextId>>
       IN
       IF \E b \in bookings :
               bookCarOverlap(b, req.carId[1], req.rentalStartDate, req.rentalEndDate)
       THEN reject(OverlapMsg)
       ELSE IF DateLt(rentalStartDateis, DateAt(now))
       THEN reject("Rental start date must be in the present or future.")
       ELSE IF DateLt(rentalEndDateis, rentalStartDateis)
       THEN reject("End date must be after the start date.")
       ELSE
       /\ bookings' = bookings \cup
             {[id |-> nextId, carId |-> req.carId[1], userId |-> req.userId,
               rentalStartDate |-> ISODate(rentalStartDateis),
               rentalStartTime |-> formatTimeTo12Hour(req.rentalStartTime),
               rentalEndDate |-> ISODate(rentalEndDateis),
               rentalEndTime |-> formatTimeTo12Hour(req.rentalEndTime),
               totalPrice |->
                   bookCarPricing(req, (CHOOSE c \in r.car : TRUE).rentRate).totalPrice]}
       /\ nextId' = nextId + 1
       /\ reqs' = [reqs EXCEPT ![s] =
                      [r EXCEPT !.pc = "bookCar:carSave"] @@ [id |-> nextId]]
    /\ UNCHANGED <<cars, now, res, calc>>

\* Lines 58-119: the overlap found, the date checks, the price, then
\* await newBooking.save().
bookCar_save(s) ==
    /\ reqs[s].pc = "bookCar:save"
    /\ LET r == reqs[s]
           req == r.req
           rentalStartDateis == ParseWithOffset(req.rentalStartDate, req.rentalStartTime)
           rentalEndDateis == ParseWithOffset(req.rentalEndDate, req.rentalEndTime)
           reject(msg) ==
               /\ reqs' = [reqs EXCEPT ![s] = Done("bookCar", req, 400, msg)]
               /\ UNCHANGED <<bookings, nextId>>
       IN
       IF r.overlapping # {} THEN reject(OverlapMsg)
       ELSE IF DateLt(rentalStartDateis, DateAt(now))
       THEN reject("Rental start date must be in the present or future.")
       ELSE IF DateLt(rentalEndDateis, rentalStartDateis)
       THEN reject("End date must be after the start date.")
       ELSE
       /\ bookings' = bookings \cup
             {[id |-> nextId, carId |-> req.carId[1], userId |-> req.userId,
               rentalStartDate |-> ISODate(rentalStartDateis),
               rentalStartTime |-> formatTimeTo12Hour(req.rentalStartTime),
               rentalEndDate |-> ISODate(rentalEndDateis),
               rentalEndTime |-> formatTimeTo12Hour(req.rentalEndTime),
               totalPrice |->
                   bookCarPricing(req, (CHOOSE c \in r.car : TRUE).rentRate).totalPrice]}
       /\ nextId' = nextId + 1
       /\ reqs' = [reqs EXCEPT ![s] =
                      [r EXCEPT !.pc = "bookCar:carSave"] @@ [id |-> nextId]]
    /\ UNCHANGED <<cars, now, res, calc>>

\* Lines 121-145: await createInvoice(...), car.availability = "Rented Out",
\* await car.save(), the 201 response.
bookCar_carSave(s) ==
    /\ reqs[s].pc = "bookCar:carSave"
    /\ cars' = [cars EXCEPT ![reqs[s].req.carId[1]].availability = "Rented Out"]
    /\ reqs' = [reqs EXCEPT ![s] =
                   Done("bookCar", reqs[s].req, 201, "Car booked successfully")]
    /\ UNCHANGED <<bookings, nextId, now, res, calc>>

\* Lines 507-512: await Booking.findOne({ _id: bookingId, userId }).  A
\* client names a booking only once bookCar has answered with it.
cancel_findBooking(s, req) ==
    /\ reqs[s] = Idle
    /\ \A t \in Slots :
         reqs[t].pc = "bookCar:carSave" => reqs[t].id # req.bookingId
    /\ reqs' = [reqs EXCEPT ![s] =
                   [pc |-> "cancel:findCar", op |-> "cancelBooking", req |-> req,
                    booking |-> cancelFind(req.bookingId, req.userId)]]
    /\ UNCHANGED <<bookings, cars, nextId, now, res, calc>>

\* Lines 513-519: the booking found, then await Car.findById(booking.carId).
cancel_findCar(s) ==
    /\ reqs[s].pc = "cancel:findCar"
    /\ LET r == reqs[s] IN
       reqs' = [reqs EXCEPT ![s] =
                   IF r.booking = {}
                   THEN Done("cancelBooking", r.req, 404,
                             "Booking not found or unauthorized access.")
                   ELSE [r EXCEPT !.pc = "cancel:carSave"]
                            @@ [car |-> Car_findById(
                                          (CHOOSE b \in r.booking : TRUE).carId)]]
    /\ UNCHANGED <<bookings, cars, nextId, now, res, calc>>

\* Lines 520-523: if (car) { car.availability = "Available"; await car.save() }
cancel_carSave(s) ==
    /\ reqs[s].pc = "cancel:carSave"
    /\ LET r == reqs[s] IN
       cars' = IF r.car = {} THEN cars
               ELSE releaseCar(cars, (CHOOSE b \in r.booking : TRUE).carId)
    /\ reqs' = [reqs EXCEPT ![s].pc = "cancel:delete"]
    /\ UNCHANGED <<bookings, nextId, now, res, calc>>

\* Lines 525-527: await Booking.findByIdAndDelete(bookingId), the 200 response.
cancel_delete(s) ==
    /\ reqs[s].pc = "cancel:delete"
    /\ bookings' = {b \in bookings : b.id # reqs[s].req.bookingId}
    /\ reqs' = [reqs EXCEPT ![s] =
                   Done("cancelBooking", reqs[s].req, 200,
                        "Booking canceled successfully.")]
    /\ UNCHANGED <<cars, nextId, now, res, calc>>

\* The response is sent; the connection takes its next request.
finish(s) ==
    /\ reqs[s].pc = "done"
    /\ reqs' = [reqs EXCEPT ![s] = Idle]
    /\ UNCHANGED <<bookings, cars, nextId, now, res, calc>>

NextConc ==
    \E s \in Slots :
        \/ \E req \in ConcBookRequests : bookCar_findCar(s, req)
        \/ bookCar_findOverlap(s)
        \/ bookCar_save(s)
        \/ bookCar_carSave(s)
        \/ \E req \in CancelRequests : cancel_findBooking(s, req)
        \/ cancel_findCar(s)
        \/ cancel_carSave(s)
        \/ cancel_delete(s)
        \/ finish(s)

SpecConc == Init /\ [][NextConc]_vars

(***************************************************************************)
(* SpecResp: the control flow of the six handlers, one invocation per      *)
(* connection at a time.  A handler is its try block and its catch block,  *)
(* each the sequence of the statements that answer or may throw:           *)
(*   Check: if (...) return res.status(status).json(...)                   *)
(*   Call:  a call that returns or throws                                  *)
(*   Send:  res.status(status).json(...)                                   *)
(* Which way a check goes and whether a call throws is left open.  sent is *)
(* the sequence of responses the invocation has sent so far.               *)
(***************************************************************************)
Ops == {"bookCar", "getUserBookings", "updateBooking", "extendBooking",
        "cancelBooking", "Return_car"}

Check(status, line) == [k |-> "check", status |-> status, line |-> line]
Call(name, line) == [k |-> "call", name |-> name, line |-> line]
Send(status, line) == [k |-> "send", status |-> status, line |-> line]

Try(op) ==
    CASE op = "bookCar" ->
           <<Check(400, 26), Call("Car.findById", 30), Check(404, 32),
             Check(400, 36), Call("Booking.findOne", 42), Check(400, 59),
             Check(400, 76), Check(400, 82), Call("toISOString", 93),
             Call("newBooking.save", 119), Call("createInvoice", 122),
             Call("car.save", 135), Send(201, 141)>>
      [] op = "getUserBookings" ->
           <<Check(400, 167), Call("Booking.find", 170), Check(404, 175),
             Send(200, 184)>>
      [] op = "updateBooking" ->
           <<Call("Booking.findById", 290), Check(404, 292), Check(400, 315),
             Check(400, 342), Check(400, 349), Call("Booking.findOne", 355),
             Check(400, 367), Check(404, 375), Call("booking.save", 386),
             Send(200, 388)>>
      [] op = "extendBooking" ->
           <<Call("Booking.findById", 403), Check(404, 405), Check(400, 414),
             Check(400, 423), Check(400, 432), Check(400, 444),
             Call("Booking.findOne", 449), Check(400, 460),
             Call("booking.carId.rentRate", 469), Check(400, 472),
             Call("booking.save", 479), Call("createInvoice", 481),
             Send(200, 496)>>
      [] op = "cancelBooking" ->
           <<Call("Booking.findOne", 512), Check(404, 514),
             Call("Car.findById", 519), Call("car.save", 522),
             Call("Booking.findByIdAndDelete", 525), Send(200, 527)>>
      [] op = "Return_car" ->
           <<Call("Booking.findById", 539), Check(404, 541),
             Call("Car.findById", 544), Check(404, 546), Call("io.emit", 548),
             Send(200, 551)>>

\* A catch block that answers nothing.
CatchSilent(op) == <<>>

Catch(op) ==
    CASE op = "bookCar" -> <<Check(400, 149), Check(409, 154), Send(500, 156)>>
      [] op = "getUserBookings" -> <<Check(500, 189), Send(500, 192)>>
      [] op = "updateBooking" -> <<Send(500, 394)>>
      [] op = "extendBooking" -> <<Send(500, 503)>>
      [] op = "cancelBooking" -> <<Send(500, 530)>>
      [] op = "Return_car" -> <<Send(500, 556)>>

Block(r) == IF r.pc = "try" THEN Try(r.op) ELSE Catch(r.op)

Running(s) == reqs[s].pc \in {"try", "catch"}

\* The invocation after the statement at r.at let control pass on: at the
\* next statement of the block, or returned when the block is at its end.
PassOn(r) ==
    IF r.at < Len(Block(r)) THEN [r EXCEPT !.at = r.at + 1]
    ELSE [r EXCEPT !.pc = "done"]

invoke(s, op) ==
    /\ reqs[s] = Idle
    /\ reqs' = [reqs EXCEPT ![s] =
                   [pc |-> "try", op |-> op, at |-> 1, sent |-> <<>>,
                    thrown |-> "none"]]
    /\ UNCHANGED <<bookings, cars, nextId, now, res, calc>>

\* if (...) return res.status(...).json(...): the condition holds
checkReturns(s) ==
    /\ Running(s)
    /\ LET r == reqs[s]
           st == Block(r)[r.at]
       IN /\ st.k = "check"
          /\ reqs' = [reqs EXCEPT ![s] =
                         [r EXCEPT !.pc = "done",
                                   !.sent = Append(@, [status |-> st.status,
                                                       line |-> st.line])]]
    /\ UNCHANGED <<bookings, cars, nextId, now, res, calc>>

\* the condition does not hold
checkPasses(s) ==
    /\ Running(s)
    /\ Block(reqs[s])[reqs[s].at].k = "check"
    /\ reqs' = [reqs EXCEPT ![s] = PassOn(reqs[s])]
    /\ UNCHANGED <<bookings, cars, nextId, now, res, calc>>

callReturns(s) ==
    /\ Running(s)
    /\ Block(reqs[s])[reqs[s].at].k = "call"
    /\ reqs' = [reqs EXCEPT ![s] = PassOn(reqs[s])]
    /\ UNCHANGED <<bookings, cars, nextId, now, res, calc>>

\* The call throws: control enters the catch block, or leaves the handler
\* when the catch block has no statement.
callThrows(s) ==
    /\ Running(s)
    /\ LET r == reqs[s]
           st == Block(r)[r.at]
       IN /\ st.k = "call"
          /\ reqs' = [reqs EXCEPT ![s] =
                         IF Catch(r.op) = <<>>
                         THEN [r EXCEPT !.pc = "done", !.thrown = st.name]
                         ELSE [r EXCEPT !.pc = "catch", !.at = 1,
                                        !.thrown = st.name]]
    /\ UNCHANGED <<bookings, cars, nextId, now, res, calc>>

\* res.status(...).json(...) not behind a condition
send(s) ==
    /\ Running(s)
    /\ LET r == reqs[s]
           st == Block(r)[r.at]
       IN /\ st.k = "send"
          /\ reqs' = [reqs EXCEPT ![s] =
                         PassOn([r EXCEPT !.sent = Append(@, [status |-> st.status,
                                                              line |-> st.line])])]
    /\ UNCHANGED <<bookings, cars, nextId, now, res, calc>>

stepResp(s) ==
    \/ checkReturns(s)
    \/ checkPasses(s)
    \/ callReturns(s)
    \/ callThrows(s)
    \/ send(s)

NextResp ==
    \E s \in Slots :
        \/ \E op \in Ops : invoke(s, op)
        \/ stepResp(s)
        \/ finish(s)

\* The runtime runs every handler it has started on to its next statement.
SpecResp == Init /\ [][NextResp]_vars /\ \A s \in Slots : WF_vars(stepResp(s))

(***************************************************************************)
(* Reading a stored booking.                                               *)
(***************************************************************************)
\* The hour of day a stored or requested time string names.
Hour24(time) ==
    IF IsHHMM(time) THEN time.h
    ELSE (time.h % 12) + (IF time.period = "PM" THEN 12 ELSE 0)

\* Two date ranges intersect.
RangesOverlap(s1, e1, s2, e2) == s1 <= e2 /\ s2 <= e1



(***************************************************************************)
(* C1 (Spec).  With requests handled one at a time and no awaited call     *)
(* throwing, no two persisted bookings of the same car have overlapping    *)
(* [rentalStartDate, rentalEndDate] ranges.                                *)
(***************************************************************************)
C1_NoOverlapSameCar ==
    \A b1 \in bookings : \A b2 \in bookings :
        (b1.id # b2.id /\ b1.carId = b2.carId)
            => ~RangesOverlap(b1.rentalStartDate, b1.rentalEndDate,
                              b2.rentalStartDate, b2.rentalEndDate)

\* Two bookings with overlapping ranges exist at once, on different cars,
\* one of them just moved by a successful updateBooking.
C1_Witness ==
    /\ res.op = "updateBooking" /\ res.status = 200
    /\ \E b1 \in bookings : \E b2 \in bookings :
        /\ b1.id = res.id /\ b2.id # b1.id /\ b1.carId # b2.carId
        /\ RangesOverlap(b1.rentalStartDate, b1.rentalEndDate,
                         b2.rentalStartDate, b2.rentalEndDate)

(***************************************************************************)
(* C2 (Spec).  A bookCar request for an existing car that is "Available",  *)
(* with start not before the current time, end not before start and no     *)
(* overlap with a booking of that car, is answered 201, adds exactly one   *)
(* booking, of that car and user, and leaves the car "Rented Out" (and     *)
(* every other car as it was).                                             *)
(***************************************************************************)
C2_Valid(req) ==
    /\ req.carId # <<>>
    /\ req.carId[1] \in Cars
    /\ cars[req.carId[1]].availability = "Available"
    /\ req.rentalStartDate * HoursPerDay + req.rentalStartTime.h - KarachiOffset >= now
    /\ req.rentalEndDate * HoursPerDay + req.rentalEndTime.h
           >= req.rentalStartDate * HoursPerDay + req.rentalStartTime.h
    /\ \A b \in bookings :
           b.carId = req.carId[1]
               => ~RangesOverlap(b.rentalStartDate, b.rentalEndDate,
                                 req.rentalStartDate, req.rentalEndDate)

C2_BookCarSucceeds ==
    [][(res'.op = "bookCar" /\ C2_Valid(res'.req))
        => /\ res'.status = 201
           /\ Cardinality(bookings' \ bookings) = 1
           /\ bookings \subseteq bookings'
           /\ \A nb \in bookings' \ bookings :
                 nb.carId = res'.req.carId[1] /\ nb.userId = res'.req.userId
           /\ cars' = [cars EXCEPT ![res'.req.carId[1]].availability = "Rented Out"]
      ]_vars

\* A booking was just created and its car is rented out.
C2_Witness ==
    /\ res.op = "bookCar" /\ res.status = 201
    /\ cars[res.req.carId[1]].availability = "Rented Out"
    /\ \E b \in bookings :
         b.id = res.id /\ b.carId = res.req.carId[1] /\ b.userId = res.req.userId

(***************************************************************************)
(* C3 (SpecFail).  A bookCar request whose date range overlaps the range   *)
(* of a persisted booking of the same car is answered 400 (car not         *)
(* available, or already booked for the dates) when no call of the request *)
(* throws, and changes neither collection.                                 *)
(***************************************************************************)
C3_Overlapping(req) ==
    /\ req.carId # <<>>
    /\ \E b \in bookings :
         /\ b.carId = req.carId[1]
         /\ RangesOverlap(b.rentalStartDate, b.rentalEndDate,
                          req.rentalStartDate, req.rentalEndDate)

C3_OverlapRejected ==
    [][(res'.op = "bookCar" /\ res'.fault = "none" /\ C3_Overlapping(res'.req))
        => /\ res'.status = 400
           /\ res'.msg \in {UnavailableMsg, OverlapMsg}
           /\ bookings' = bookings
           /\ cars' = cars
      ]_vars

\* The overlap query itself rejected a request: the car was Available.
C3_Witness ==
    /\ res.op = "bookCar" /\ res.status = 400 /\ res.msg = OverlapMsg
    /\ cars[res.req.carId[1]].availability = "Available"
    /\ \E b \in bookings :
         /\ b.carId = res.req.carId[1]
         /\ RangesOverlap(b.rentalStartDate, b.rentalEndDate,
                          res.req.rentalStartDate, res.req.rentalEndDate)

(***************************************************************************)
(* C5 (Spec).  cancelBooking with a userId other than the booking's is     *)
(* answered 404 and changes neither the bookings nor the cars.             *)
(***************************************************************************)
C5_NonOwnerCancelRejected ==
    [][(/\ res'.op = "cancelBooking"
        /\ \E b \in bookings :
             b.id = res'.req.bookingId /\ b.userId # res'.req.userId)
        => /\ res'.status = 404
           /\ bookings' = bookings
           /\ cars' = cars
      ]_vars

\* Another user's cancel was refused; the booking and its car stand.
C5_Witness ==
    /\ res.op = "cancelBooking" /\ res.status = 404
    /\ \E b \in bookings :
         /\ b.id = res.req.bookingId /\ b.userId # res.req.userId
         /\ cars[b.carId].availability = "Rented Out"

(***************************************************************************)
(* C6 (Spec).  A cancelBooking answered 200 was asked by the booking's     *)
(* user, removed exactly that booking, and left its car "Available"; no    *)
(* other booking and no other car changed.                                 *)
(***************************************************************************)
C6_OwnerCancelEffect ==
    [][(res'.op = "cancelBooking" /\ res'.status = 200)
        => \E b \in bookings :
             /\ b.id = res'.req.bookingId /\ b.userId = res'.req.userId
             /\ bookings' = bookings \ {b}
             /\ cars' = [cars EXCEPT ![b.carId].availability = "Available"]
      ]_vars

\* A booking was cancelled while the other car stays booked.
C6_Witness ==
    /\ res.op = "cancelBooking" /\ res.status = 200
    /\ \A b \in bookings : b.id # res.id
    /\ \E b \in bookings : cars[b.carId].availability = "Rented Out"
    /\ \E c \in Cars : cars[c].availability = "Available"

(***************************************************************************)
(* C7 (Spec).  The claim: an updateBooking or extendBooking handled at or  *)
(* after the rental start of a booking as bookCar stored it is not         *)
(* answered 200 and leaves the bookings unchanged.                         *)
(***************************************************************************)
\* The instant bookCar took as the rental start of the booking it stored:
\* rentalStartDate is the UTC date of that instant, rentalStartTime its
\* time of day at +05:00.
StoredByBookCar(b) == ~IsHHMM(b.rentalStartTime) /\ ~IsHHMM(b.rentalEndTime)

BookedStart(b) ==
    b.rentalStartDate * HoursPerDay
        + ((Hour24(b.rentalStartTime) - KarachiOffset) % HoursPerDay)

C7_NoChangeAfterStart ==
    [][(/\ res'.op \in {"updateBooking", "extendBooking"}
        /\ \E b \in bookings :
             b.id = res'.id /\ StoredByBookCar(b) /\ now >= BookedStart(b))
        => (res'.status # 200 /\ bookings' = bookings)
      ]_vars

(***************************************************************************)
(* C9 (Spec).  The claim: every persisted booking has totalPrice =         *)
(* daysRented * rentRate of its car, daysRented being computed from the    *)
(* start and end the booking stores.                                       *)
(***************************************************************************)
StoredInstant(date, time) == DateAt(date * HoursPerDay + Hour24(time))

C9_PriceMatchesStoredDates ==
    \A b \in bookings :
        b.totalPrice =
            daysRented(StoredInstant(b.rentalStartDate, b.rentalStartTime),
                       StoredInstant(b.rentalEndDate, b.rentalEndTime)).n
                * cars[b.carId].rentRate

(***************************************************************************)
(* C10 (SpecFail).  An extendBooking is not answered 200 and persists      *)
(* nothing when another booking of the same car overlaps the range from    *)
(* the booking's rentalStartDate to its new rentalEndDate; and after an    *)
(* extendBooking answered 200 the extended booking overlaps no other       *)
(* booking of its car.                                                     *)
(***************************************************************************)
C10_OtherOverlaps(b, newEnd) ==
    \E o \in bookings :
        /\ o.id # b.id /\ o.carId = b.carId
        /\ RangesOverlap(o.rentalStartDate, o.rentalEndDate, b.rentalStartDate, newEnd)

C10_ExtendRespectsOverlap ==
    [][res'.op = "extendBooking"
        => /\ \A b \in bookings :
                (b.id = res'.id
                   /\ C10_OtherOverlaps(b, Assign(b.rentalEndDate, res'.req.rentalEndDate)))
                    => (res'.status # 200 /\ bookings' = bookings)
           /\ res'.status = 200
                => \A b \in bookings' : \A o \in bookings' :
                      (b.id = res'.id /\ o.id # b.id /\ o.carId = b.carId)
                          => ~RangesOverlap(o.rentalStartDate, o.rentalEndDate,
                                            b.rentalStartDate, b.rentalEndDate)
      ]_vars

\* extendBooking's overlap query refused an extension into another booking
\* of the same car.
C10_Witness ==
    /\ res.op = "extendBooking" /\ res.status = 400 /\ res.msg = OverlapMsg
    /\ \E b \in bookings :
         b.id = res.id /\ C10_OtherOverlaps(b, Assign(b.rentalEndDate, res.req.rentalEndDate))

\* An extension was granted next to another booking of the same car.
C10_WitnessGranted ==
    /\ res.op = "extendBooking" /\ res.status = 200
    /\ \E b \in bookings : \E o \in bookings :
         b.id = res.id /\ o.id # b.id /\ o.carId = b.carId

(***************************************************************************)
(* C8 (SpecPrice).  The claim: daysRented of bookCar is the inclusive      *)
(* count of calendar days from the request's start date to its end date,   *)
(* whatever the times of day.                                              *)
(***************************************************************************)
C8_InclusiveCalendarDays ==
    calc.op = "bookCar"
        => calc.daysRented = calc.req.rentalEndDate - calc.req.rentalStartDate + 1

(***************************************************************************)
(* C4 (SpecConc).  The claim: whenever no request is in flight, a car is   *)
(* "Rented Out" exactly when some persisted booking references it.         *)
(***************************************************************************)
C4_AvailabilityMatchesBookings ==
    (\A s \in Slots : ~InFlight(s))
        => \A c \in Cars :
              cars[c].availability = "Rented Out" <=> \E b \in bookings : b.carId = c

(***************************************************************************)
(* C11 (Spec).  The claim: an updateBooking answered 200 leaves the        *)
(* booking with a rental start (its stored date at its stored time of day) *)
(* strictly later than the start it had before the update.                 *)
(***************************************************************************)
C11_StartMovesLater ==
    [][(res'.op = "updateBooking" /\ res'.status = 200)
        => \A old \in bookings : \A new \in bookings' :
              (old.id = res'.id /\ new.id = res'.id)
                  => StoredInstant(new.rentalStartDate, new.rentalStartTime).t
                         > StoredInstant(old.rentalStartDate, old.rentalStartTime).t
      ]_vars

(***************************************************************************)
(* C12 (SpecReturn).  Return_car changes neither the bookings nor the cars *)
(* on any path; answered 200 it has emitted exactly one notification, on   *)
(* the channel of the user id of the booking's car; answered anything else *)
(* (booking not found, car not resolved, a call throwing) it has emitted   *)
(* none.                                                                   *)
(***************************************************************************)
C12_ReturnCarFrame ==
    [][res'.op = "Return_car"
        => /\ bookings' = bookings
           /\ cars' = cars
           /\ res'.status = 200
                => \E b \in bookings :
                      /\ b.id = res'.req.BookingId
                      /\ Len(res'.emitted) = 1
                      /\ res'.emitted[1].channel = cars[b.carId].userId
           /\ res'.status # 200 => res'.emitted = <<>>
      ]_vars

\* A return request was acknowledged while its booking stands and its car
\* is still rented out.
C12_Witness ==
    /\ res.op = "Return_car" /\ res.status = 200 /\ Len(res.emitted) = 1
    /\ \E b \in bookings :
         b.id = res.req.BookingId /\ cars[b.carId].availability = "Rented Out"

\* A return request for a booking that does not exist was refused.
C12_WitnessNotFound ==
    /\ res.op = "Return_car" /\ res.status = 404 /\ res.emitted = <<>>
    /\ bookings # {}

(***************************************************************************)
(* C13 (SpecConc).  A bookCar request that has read its car as Available   *)
(* and found no overlapping booking goes on to save its booking whatever   *)
(* the other requests in flight have written since; so two bookCar         *)
(* requests for one car can both pass the checks before either writes, and *)
(* a state with two overlapping bookings of one car is reached.            *)
(***************************************************************************)
C13_SavesOnStaleCheck ==
    [][\A s \in Slots :
          (/\ reqs[s].pc = "bookCar:save"
           /\ reqs'[s] # reqs[s]
           /\ reqs[s].overlapping = {}
           /\ ~DateLt(ParseWithOffset(reqs[s].req.rentalStartDate,
                                      reqs[s].req.rentalStartTime), DateAt(now))
           /\ ~DateLt(ParseWithOffset(reqs[s].req.rentalEndDate,
                                      reqs[s].req.rentalEndTime),
                      ParseWithOffset(reqs[s].req.rentalStartDate,
                                      reqs[s].req.rentalStartTime)))
              => /\ reqs'[s].pc = "bookCar:carSave"
                 /\ bookings \subseteq bookings'
                 /\ Cardinality(bookings' \ bookings) = 1
      ]_vars

\* Double-booking: both requests were answered 201 and their bookings, of
\* the same car, overlap.
C13_Witness ==
    /\ \A s \in Slots : reqs[s].pc = "done" /\ reqs[s].op = "bookCar"
                             /\ reqs[s].status = 201
    /\ \E b1 \in bookings : \E b2 \in bookings :
         /\ b1.id # b2.id /\ b1.carId = b2.carId
         /\ RangesOverlap(b1.rentalStartDate, b1.rentalEndDate,
                          b2.rentalStartDate, b2.rentalEndDate)

(***************************************************************************)
(* C14 (SpecFail).  When createInvoice or car.save throws in bookCar, that *)
(* is after the Booking insert and before the Car update, the request is   *)
(* answered with an error (500) while the new booking stays persisted and  *)
(* the cars are unchanged, the booked car still "Available".               *)
(***************************************************************************)
C14_NoRollback ==
    [][(res'.op = "bookCar" /\ res'.fault \in {"createInvoice", "car.save"})
        => /\ res'.status = 500
           /\ \E nb \in bookings' :
                 /\ nb \notin bookings
                 /\ nb.id = res'.id
                 /\ nb.carId = res'.req.carId[1]
                 /\ bookings' = bookings \cup {nb}
           /\ cars' = cars
           /\ cars'[res'.req.carId[1]].availability = "Available"
      ]_vars

\* bookCar failed at the car update: its booking exists, its car is free.
C14_Witness ==
    /\ res.op = "bookCar" /\ res.fault = "car.save" /\ res.status = 500
    /\ \E b \in bookings : b.id = res.id /\ b.carId = res.req.carId[1]
    /\ cars[res.req.carId[1]].availability = "Available"

(***************************************************************************)
(* C15 (SpecFail).  updateBooking is never answered "already booked for    *)
(* the selected dates", whatever other bookings its car has; with two      *)
(* bookings of one car, an update answered 200 moves one to overlap the    *)
(* other.                                                                  *)
(***************************************************************************)
C15_UpdateNeverConflicts ==
    [][res'.op = "updateBooking" => res'.msg # OverlapMsg]_vars

\* An update was saved whose booking now overlaps another booking of the
\* same car.
C15_Witness ==
    /\ res.op = "updateBooking" /\ res.status = 200
    /\ \E b \in bookings : \E o \in bookings :
         /\ b.id = res.id /\ o.id # b.id /\ o.carId = b.carId
         /\ RangesOverlap(o.rentalStartDate, o.rentalEndDate,
                          b.rentalStartDate, b.rentalEndDate)

(***************************************************************************)
(* C16 (SpecFail).  A bookCar, updateBooking or extendBooking request that *)
(* one of the handler's own checks rejects (answered 400 or 404, no call   *)
(* throwing) leaves the bookings and the cars exactly as they were, also   *)
(* when the handler had assigned new fields to the booking it read.        *)
(***************************************************************************)
C16_RejectionsWriteNothing ==
    [][(/\ res'.op \in {"bookCar", "updateBooking", "extendBooking"}
        /\ res'.fault = "none"
        /\ res'.status \in {400, 404})
        => (bookings' = bookings /\ cars' = cars)
      ]_vars

\* extendBooking assigned a new rentalEndDate to the booking it read and
\* then rejected the request: the stored booking keeps its end date.
C16_Witness ==
    /\ res.op = "extendBooking" /\ res.status = 400
    /\ res.msg \in {OverlapMsg, "Failed to calculate total price.",
                    "Rental end time must be after the rental start time."}
    /\ res.req.rentalEndDate # <<>>
    /\ \E b \in bookings :
         b.id = res.id /\ b.rentalEndDate # res.req.rentalEndDate[1]

(***************************************************************************)
(* C17 (Spec).  With requests handled one at a time and no awaited call    *)
(* throwing, every car has at most one booking, and no bookCar request is  *)
(* rejected by the overlap query (lines 58-62): a bookCar on a car that    *)
(* has a booking is stopped by the availability test (line 35).            *)
(***************************************************************************)
C17_OneBookingPerCar ==
    /\ \A c \in Cars : Cardinality({b \in bookings : b.carId = c}) <= 1
    /\ ~(res.op = "bookCar" /\ res.msg = OverlapMsg)
    /\ \A c \in Cars :
          (\E b \in bookings : b.carId = c) => cars[c].availability = "Rented Out"

\* A bookCar on a car that has a booking, for dates that booking does not
\* cover, was stopped by the availability test.
C17_Witness ==
    /\ res.op = "bookCar" /\ res.status = 400 /\ res.msg = UnavailableMsg
    /\ \E b \in bookings :
         /\ b.carId = res.req.carId[1]
         /\ ~RangesOverlap(b.rentalStartDate, b.rentalEndDate,
                           res.req.rentalStartDate, res.req.rentalEndDate)

(***************************************************************************)
(* C18 (Spec).  The claim: the booking a bookCar answered 201 persisted    *)
(* has rentalStartDate and rentalEndDate equal to the dates of the         *)
(* request.                                                                *)
(***************************************************************************)
C18_StoredDatesAreRequestDates ==
    [][(res'.op = "bookCar" /\ res'.status = 201)
        => \A b \in bookings' :
              b.id = res'.id
                  => /\ b.rentalStartDate = res'.req.rentalStartDate
                     /\ b.rentalEndDate = res'.req.rentalEndDate
      ]_vars

(***************************************************************************)
(* C19 (SpecResp).  Every invocation of the six handlers comes to its end, *)
(* and has then sent exactly one response, whichever way its checks go and *)
(* whichever of its calls throws; it never sends a second response, and it *)
(* runs no statement twice (control only moves forward in a block, or from *)
(* the try block into the catch block).                                    *)
(***************************************************************************)
C19_ExactlyOneResponse ==
    /\ [](\A s \in Slots :
            /\ Running(s) => Len(reqs[s].sent) = 0
            /\ (reqs[s].pc = "done" /\ "sent" \in DOMAIN reqs[s])
                   => Len(reqs[s].sent) = 1)
    /\ [][\A s \in Slots :
            (Running(s) /\ reqs'[s] # reqs[s])
                => \/ reqs'[s].pc = "done"
                   \/ reqs'[s].pc = reqs[s].pc /\ reqs'[s].at = reqs[s].at + 1
                   \/ reqs[s].pc = "try" /\ reqs'[s].pc = "catch"
          ]_vars
    /\ \A s \in Slots : Running(s) ~> (reqs[s].pc = "done")

\* bookCar answered 500 from its catch block after car.save threw, while
\* another handler answered from its try block.
C19_Witness ==
    \E s \in Slots : \E t \in Slots :
        /\ reqs[s].pc = "done" /\ reqs[s].op = "bookCar"
        /\ reqs[s].thrown = "car.save"
        /\ reqs[s].sent = <<[status |-> 500, line |-> 156]>>
        /\ reqs[t].pc = "done" /\ reqs[t].op = "Return_car"
        /\ reqs[t].thrown = "none" /\ Len(reqs[t].sent) = 1

====
